---- MODULE Spec2Model ----
(***************************************************************************)
(* A model of script.py: the response decoders, the lazy paginated scan of *)
(* an account's transactions, the extraction of beneficiary names from     *)
(* their notes, and the provisioning of one rule per beneficiary.          *)
(*                                                                         *)
(* Text that the program inspects character by character (transaction      *)
(* notes, beneficiary names, trigger values) is a sequence of one-character *)
(* strings; text that it only passes along is a string.                    *)
(***************************************************************************)
EXTENDS Integers, Sequences, FiniteSets, TLC

\* Bound of the safety specification: GETs issued by one scan.
MaxPages == 2
\* Bound: entries of one page.
MaxPageItems == 2
\* Bound of the safety specification: entries of all the pages of one scan.
MaxItems == 3

VARIABLES
    pc,             \* position of main: user, scan, provision, trigger, done, failed
    dry_run,        \* the --dry-run flag
    started,        \* the search GET has been issued (the generators have been entered)
    data,           \* body of the page the paginated decoder is yielding from
    idx,            \* entries of that page yielded so far
    tidx,           \* transactions of the current entry handled by main so far
    missing_rules,  \* main's set of beneficiary names
    visited,        \* beneficiaries the provisioning loop has taken from the set
    beneficiary,    \* the beneficiary create_fixing_rule is working on
    rule,           \* the rule decoded from the creation response
    error,          \* name of the exception that ended the run, "" if none
    last,           \* input and outcome of the latest process_api_response call
    hist,           \* whether the run is recorded in the history variables below
    log,            \* history: the requests issued, in order
    pages,          \* history: the page bodies received by the scan, in order
    yielded,        \* history: the entries yielded by the paginated decoder
    seen,           \* history: the notes main's loop has examined
    ledger          \* history: the rules the server has stored

vars == <<pc, dry_run, started, data, idx, tidx, missing_rules, visited, beneficiary,
          rule, error, last, hist, log, pages, yielded, seen, ledger>>

-----------------------------------------------------------------------------
(* Text *)

Marker == <<"O","r","i","g","i","n","a","l"," ","a","c","c","o","u","n","t"," ",
            "n","a","m","e",":"," ">>

Whitespace == {" ", "\t", "\n", "\r", "\f"}

\* The pattern's literal part matches s at position i.
MatchAt(s, i) ==
    /\ i + Len(Marker) - 1 <= Len(s)
    /\ SubSeq(s, i, i + Len(Marker) - 1) = Marker

\* ([^\n]*): the longest run without a newline that starts at position i.
RECURSIVE UpToNewline(_, _)
UpToNewline(s, i) ==
    IF i > Len(s) \/ s[i] = "\n" THEN <<>>
    ELSE <<s[i]>> \o UpToNewline(s, i + 1)

\* re.search(r"Original account name: ([^\n]*)", s): the leftmost match.
re_search(s) ==
    LET hits == {i \in 1..Len(s) : MatchAt(s, i)}
    IN  IF hits = {} THEN [matched |-> FALSE, group1 |-> <<>>]
        ELSE LET i == CHOOSE h \in hits : \A g \in hits : h <= g
             IN  [matched |-> TRUE, group1 |-> UpToNewline(s, i + Len(Marker))]

RECURSIVE lstrip(_)
lstrip(s) ==
    IF s # <<>> /\ Head(s) \in Whitespace THEN lstrip(Tail(s)) ELSE s

RECURSIVE rstrip(_)
rstrip(s) ==
    IF s # <<>> /\ s[Len(s)] \in Whitespace THEN rstrip(SubSeq(s, 1, Len(s) - 1))
    ELSE s

\* str.strip()
strip(s) == rstrip(lstrip(s))

\* f"Original account name: {beneficiary}"
notes_contains(b) == Marker \o b

-----------------------------------------------------------------------------
(* JSON bodies *)

Absent == [t |-> "absent", v |-> ""]
Str(s) == [t |-> "str", v |-> s]
Other == [t |-> "other", v |-> ""]

NoData == [t |-> "absent", id |-> Absent, attrs |-> FALSE, items |-> <<>>]
Null == [t |-> "other", id |-> Absent, attrs |-> FALSE, items |-> <<>>]
Dict(id, attrs) == [t |-> "dict", id |-> id, attrs |-> attrs, items |-> <<>>]
List(items) == [t |-> "list", id |-> Absent, attrs |-> FALSE, items |-> items]

\* What a request comes back with: arrived says that there is a response (the
\* request did not raise), json whether its body parses, obj whether it
\* parses to an object; the other fields are that object's keys "message",
\* "exception", "data" and "links"."next".
Body(message, exception, d, next) ==
    [arrived |-> TRUE, json |-> TRUE, obj |-> TRUE, message |-> message, exception |-> exception,
     data |-> d, next |-> next]
Unparseable ==
    [arrived |-> TRUE, json |-> FALSE, obj |-> FALSE, message |-> Absent, exception |-> Absent,
     data |-> NoData, next |-> Absent]
NonObject ==
    [arrived |-> TRUE, json |-> TRUE, obj |-> FALSE, message |-> Absent,
     exception |-> Absent, data |-> NoData, next |-> Absent]
\* session.get or session.post raised: no response.
NoResponse ==
    [arrived |-> FALSE, json |-> FALSE, obj |-> FALSE, message |-> Absent,
     exception |-> Absent, data |-> NoData, next |-> Absent]

\* An element of a search page's data list, and a transaction of its
\* attributes.transactions; attrs says whether the keys main reads are there.
Transaction(notes) == [notes |-> notes]
Entry(transactions) == [t |-> "dict", attrs |-> TRUE, transactions |-> transactions]
EntryWithoutAttributes == [t |-> "dict", attrs |-> FALSE, transactions |-> <<>>]
NonDictEntry == [t |-> "other", attrs |-> FALSE, transactions |-> <<>>]

-----------------------------------------------------------------------------
(* The decoders *)

Raised(kind, text) == [kind |-> kind, text |-> text, value |-> NoData]
Returned(value) == [kind |-> "ok", text |-> "", value |-> value]

\* pydantic.TypeAdapter(expected_type).validate_python(d)
validate_python(expected_type, d) ==
    IF expected_type = "dict" THEN d.t = "dict"
    ELSE d.t = "list" /\ \A i \in 1..Len(d.items) : d.items[i].t = "dict"

\* Faulty variant: the data case is tried before the error case.
process_api_response_data_first(r, expected_type) ==
    IF ~r.json THEN Raised("ValueError", "Unexpected response format")
    ELSE IF r.obj /\ r.data.t # "absent"
        THEN IF validate_python(expected_type, r.data) THEN Returned(r.data)
             ELSE Raised("ValidationError", "")
    ELSE IF r.obj /\ r.message.t = "str" /\ r.exception.t = "str"
        THEN Raised("RuntimeError", r.exception.v \o ": " \o r.message.v)
    ELSE Raised("ValueError", "Unexpected response format")

process_api_response(r, expected_type) ==
    IF ~r.json THEN Raised("ValueError", "Unexpected response format")
    ELSE IF r.obj /\ r.message.t = "str" /\ r.exception.t = "str"
        THEN Raised("RuntimeError", r.exception.v \o ": " \o r.message.v)
    ELSE IF r.obj /\ r.data.t # "absent"
        THEN IF validate_python(expected_type, r.data) THEN Returned(r.data)
             ELSE Raised("ValidationError", "")
    ELSE Raised("ValueError", "Unexpected response format")

\* Faulty variant: any "next" that is present is followed, textual or not.
has_any_next(d) == d.json /\ d.obj /\ d.next.t # "absent"

\* case {"links": {"next": str() as next}}
has_next(d) == d.json /\ d.obj /\ d.next.t = "str"

\* Faulty variant: the next page is fetched while the last entry is still to be yielded.
page_nearly_exhausted(d, i) == i >= Len(d.data.items) - 1

\* The paginated decoder has yielded every entry of the page it holds.
page_exhausted(d, i) == i = Len(d.data.items)

\* get_transactions_with_notes has yielded every transaction of the entry
\* it holds (none before the first entry of a page).
entry_exhausted(d, i, j) ==
    IF i = 0 THEN TRUE ELSE j = Len(d.data.items[i].transactions)

-----------------------------------------------------------------------------
(* What the server may answer *)

NoteA == Marker \o <<"A">>
NoteA2 == <<"x", "\n">> \o Marker \o <<"A", " ", "\n", "y">>
NoteB == Marker \o <<" ", "B">>
NoteNoMatch == SubSeq(Marker, 1, Len(Marker) - 2)

Entries ==
    { Entry(<<Transaction(NoteA)>>),
      Entry(<<Transaction(NoteNoMatch), Transaction(NoteA2)>>),
      Entry(<<Transaction(NoteB)>>),
      EntryWithoutAttributes,
      NonDictEntry }

ItemLists == UNION {[1..n -> Entries] : n \in 0..MaxPageItems}

ErrorEnvelope == Body(Str("Unauthenticated"), Str("AuthenticationException"), NoData, Absent)
ErrorEnvelopeWithData ==
    Body(Str("Unauthenticated"), Str("AuthenticationException"), Dict(Str("1"), TRUE), Absent)

UserBodies ==
    { NoResponse, Unparseable, NonObject, ErrorEnvelope, ErrorEnvelopeWithData,
      Body(Str("Unauthenticated"), Absent, NoData, Absent),
      Body(Str("Unauthenticated"), Other, NoData, Absent),
      Body(Other, Str("AuthenticationException"), Dict(Str("1"), TRUE), Absent),
      Body(Absent, Absent, NoData, Absent),
      Body(Absent, Absent, Null, Absent),
      Body(Absent, Absent, List(<<>>), Absent),
      Body(Absent, Absent, Dict(Str("1"), TRUE), Absent),
      Body(Absent, Absent, Dict(Str("1"), FALSE), Absent) }

PageBodies ==
    { NoResponse, Unparseable, NonObject, ErrorEnvelope,
      Body(Absent, Absent, Dict(Str("1"), TRUE), Str("/next")) }
    \cup { Body(Absent, Absent, List(items), next) :
              items \in ItemLists, next \in {Absent, Other, Str("/next")} }

RuleIds == {"1", "2"}

RuleBodies ==
    { NoResponse, Unparseable, ErrorEnvelopeWithData,
      Body(Absent, Absent, List(<<>>), Absent) }
    \cup { Body(Absent, Absent, Dict(id, attrs), Absent) :
              id \in {Absent} \cup {Str(i) : i \in RuleIds}, attrs \in BOOLEAN }

\* Status of the response to the trigger request; 0 when the request raised.
TriggerStatuses == {0, 200, 204, 404, 500}

-----------------------------------------------------------------------------
(* The run *)

NoCall == [called |-> FALSE, r |-> Unparseable, expected_type |-> "", out |-> Raised("", "")]
Call(r, expected_type) ==
    [called |-> TRUE, r |-> r, expected_type |-> expected_type,
     out |-> process_api_response(r, expected_type)]

\* One request and what came of it: ok says that the response was decoded
\* (for the trigger call, that its status passed raise_for_status), id is the
\* "id" of the decoded data.
Exchange(method, url, title, value, ok, id) ==
    [method |-> method, url |-> url, title |-> title, value |-> value, ok |-> ok, id |-> id]

Record(history, x) == IF hist THEN Append(history, x) ELSE history

RECURSIVE Flatten(_)
Flatten(ss) == IF ss = <<>> THEN <<>> ELSE Head(ss) \o Flatten(Tail(ss))

\* Entries the server has handed out in the pages recorded so far.
Served == Len(Flatten([k \in 1..Len(pages) |-> pages[k].data.items]))

\* Faulty variant: an exception raised by the scan is caught and the run goes on.
swallowed_in_scan(at) == IF at = "scan" THEN "provision" ELSE "failed"

\* Faulty variant: an exception raised for one beneficiary is caught and the loop goes on.
swallowed_in_loop(at) == IF at \in {"provision", "trigger"} THEN "provision" ELSE "failed"

\* main catches nothing: an exception raised anywhere ends the run.
unhandled(at) == "failed"

Start(recorded) ==
    /\ pc = "user"
    /\ dry_run \in BOOLEAN
    /\ started = FALSE
    /\ data = Body(Absent, Absent, List(<<>>), Absent)
    /\ idx = 0
    /\ tidx = 0
    /\ missing_rules = {}
    /\ visited = {}
    /\ beneficiary = <<>>
    /\ rule = NoData
    /\ error = ""
    /\ last = NoCall
    /\ hist = recorded
    /\ log = <<>>
    /\ pages = <<>>
    /\ yielded = <<>>
    /\ seen = <<>>
    /\ ledger = <<>>

Init == Start(TRUE)

\* The exceptions of one step: the run ends there.
Raise(at, kind) ==
    /\ pc' = unhandled(at)
    /\ error' = kind

\* main, lines 260-264: fetch the current user and read its email.
GetUser ==
    /\ pc = "user"
    /\ \E r \in UserBodies :
        LET call == Call(r, "dict") IN
        IF ~r.arrived
        THEN /\ Raise("user", "ConnectionError")
             /\ log' = Record(log, Exchange("GET", "/api/v1/about/user", <<>>, <<>>,
                                            FALSE, Absent))
             /\ last' = last
        ELSE /\ last' = call
             /\ log' = Record(log, Exchange("GET", "/api/v1/about/user", <<>>, <<>>,
                                            call.out.kind = "ok", call.out.value.id))
             /\ IF call.out.kind # "ok" THEN Raise("user", call.out.kind)
                ELSE IF ~call.out.value.attrs THEN Raise("user", "KeyError")
                ELSE pc' = "scan" /\ error' = error
    /\ UNCHANGED <<dry_run, started, data, idx, tidx, missing_rules, visited,
                   beneficiary, rule, hist, pages, yielded, seen, ledger>>

\* process_paginated_api_response, lines 83-88, entered with response r to
\* the GET of url: parse, decode as a list of objects, start yielding.
ReceivePage(url, r) ==
    /\ hist => Len(pages) < MaxPages /\ Served + Len(r.data.items) <= MaxItems
    /\ pages' = Record(pages, r)
    /\ IF ~r.arrived \/ ~r.json
       THEN /\ Raise("scan", IF r.arrived THEN "ValueError" ELSE "ConnectionError")
            /\ log' = Record(log, Exchange("GET", url, <<>>, <<>>, FALSE, Absent))
            /\ UNCHANGED <<last, data, idx, tidx>>
       ELSE LET call == Call(r, "list[dict]") IN
            /\ last' = call
            /\ log' = Record(log, Exchange("GET", url, <<>>, <<>>, call.out.kind = "ok", Absent))
            /\ IF call.out.kind # "ok"
               THEN Raise("scan", call.out.kind) /\ UNCHANGED <<data, idx, tidx>>
               ELSE /\ data' = r
                    /\ idx' = 0
                    /\ tidx' = 0
                    /\ UNCHANGED <<pc, error>>

\* get_transactions_with_notes, lines 136-143: main's first pull issues the
\* search.
SearchTransactions ==
    /\ pc = "scan"
    /\ ~started
    /\ started' = TRUE
    /\ \E r \in PageBodies : ReceivePage("/api/v1/search/transactions", r)
    /\ UNCHANGED <<dry_run, missing_rules, visited, beneficiary, rule, hist,
                   yielded, seen, ledger>>

\* Line 88 yields the next entry of the page; line 144 reads its transactions.
YieldEntry ==
    /\ pc = "scan"
    /\ started
    /\ entry_exhausted(data, idx, tidx)
    /\ idx < Len(data.data.items)
    /\ idx' = idx + 1
    /\ tidx' = 0
    /\ yielded' = Record(yielded, data.data.items[idx + 1])
    /\ IF data.data.items[idx + 1].attrs THEN UNCHANGED <<pc, error>>
       ELSE Raise("scan", "KeyError")
    /\ UNCHANGED <<dry_run, started, data, missing_rules, visited, beneficiary,
                   rule, last, hist, log, pages, seen, ledger>>

\* Faulty variant: a note without the marker ends the run.
fail_on_no_match(m) == IF m.matched THEN "scan" ELSE "failed"

\* Lines 280-289: a note without the marker is logged and the loop goes on.
after_examine(m) == "scan"

\* Faulty variant: the captured group is added as it is.
add_unstripped(missing, m) ==
    IF m.matched THEN missing \cup {m.group1} ELSE missing

\* Line 289 (and line 286, which adds nothing).
add_beneficiary(missing, m) ==
    IF m.matched THEN missing \cup {strip(m.group1)} ELSE missing

\* main, lines 269-289: the loop body, for the next transaction of the entry.
ExamineTransaction ==
    /\ pc = "scan"
    /\ started
    /\ idx >= 1
    /\ tidx < Len(data.data.items[idx].transactions)
    /\ LET transaction == data.data.items[idx].transactions[tidx + 1]
           matched == re_search(transaction.notes)
       IN  /\ missing_rules' = add_beneficiary(missing_rules, matched)
           /\ pc' = after_examine(matched)
           /\ seen' = Record(seen, transaction.notes)
    /\ tidx' = tidx + 1
    /\ UNCHANGED <<dry_run, started, data, idx, visited, beneficiary, rule, error,
                   last, hist, log, pages, yielded, ledger>>

\* Lines 90-96: the page is used up and names a next one.
FetchNextPage ==
    /\ pc = "scan"
    /\ started
    /\ entry_exhausted(data, idx, tidx)
    /\ page_exhausted(data, idx)
    /\ has_next(data)
    /\ \E r \in PageBodies : ReceivePage(data.next.v, r)
    /\ UNCHANGED <<dry_run, started, missing_rules, visited, beneficiary, rule,
                   hist, yielded, seen, ledger>>

\* Faulty variant: the dry-run flag is not looked at.
after_scan_ignoring_dry_run(missing, dry) ==
    IF missing = {} THEN "done" ELSE "provision"

\* main, lines 291-308: where the run goes once the scan is over.
after_scan(missing, dry) ==
    IF missing = {} THEN "done"
    ELSE IF dry THEN "done"
    ELSE "provision"

\* Lines 97-98: the last page is used up; then main, lines 291-308.
EndOfScan ==
    /\ pc = "scan"
    /\ started
    /\ entry_exhausted(data, idx, tidx)
    /\ page_exhausted(data, idx)
    /\ ~has_next(data)
    /\ pc' = after_scan(missing_rules, dry_run)
    /\ UNCHANGED <<dry_run, started, data, idx, tidx, missing_rules, visited,
                   beneficiary, rule, error, last, hist, log, pages, yielded, seen,
                   ledger>>

\* for beneficiary in missing_rules: what the iteration has not produced yet.
pending(missing, taken) == missing \ taken

\* Faulty variant: the trigger is sent to a fixed rule.
trigger_url_fixed(created) == "/api/v1/rules/1/trigger"

\* f"/api/v1/rules/{rule_id}/trigger" with rule_id = rule["id"]
trigger_url(created) == "/api/v1/rules/" \o created.id.v \o "/trigger"

\* Response.raise_for_status()
raise_for_status(status) == 400 <= status /\ status < 600

\* create_fixing_rule, lines 156-190, for the next beneficiary of the set:
\* post the rule, decode the answer, read the rule's id.
CreateRule ==
    /\ pc = "provision"
    /\ \E b \in pending(missing_rules, visited), r \in RuleBodies :
        LET call == Call(r, "dict") IN
        /\ visited' = visited \cup {b}
        /\ beneficiary' = b
        /\ IF ~r.arrived
           THEN /\ Raise("provision", "ConnectionError")
                /\ log' = Record(log, Exchange("POST", "/api/v1/rules", b,
                                               notes_contains(b), FALSE, Absent))
                /\ UNCHANGED <<last, ledger, rule>>
           ELSE /\ last' = call
                /\ log' = Record(log, Exchange("POST", "/api/v1/rules", b,
                                               notes_contains(b), call.out.kind = "ok",
                                               call.out.value.id))
                /\ ledger' = IF call.out.kind = "ok"
                                THEN Record(ledger, [title |-> b, value |-> notes_contains(b)])
                                ELSE ledger
                /\ IF call.out.kind # "ok"
                   THEN Raise("provision", call.out.kind) /\ rule' = rule
                   ELSE /\ rule' = call.out.value
                        /\ IF call.out.value.id.t = "absent"
                           THEN Raise("provision", "KeyError")
                           ELSE pc' = "trigger" /\ error' = error
    /\ UNCHANGED <<dry_run, started, data, idx, tidx, missing_rules, hist, pages,
                   yielded, seen>>

\* create_fixing_rule, lines 192-193, then main, lines 313-317: trigger the
\* rule, report it, go on with the loop.
TriggerRule ==
    /\ pc = "trigger"
    /\ \E status \in TriggerStatuses :
        /\ log' = Record(log, Exchange("POST", trigger_url(rule), <<>>, <<>>,
                                       status # 0 /\ ~raise_for_status(status), Absent))
        /\ IF status = 0 THEN Raise("trigger", "ConnectionError")
           ELSE IF raise_for_status(status) THEN Raise("trigger", "HTTPError")
           ELSE IF ~rule.attrs THEN Raise("trigger", "KeyError")
           ELSE /\ pc' = IF pending(missing_rules, visited) = {} THEN "done"
                          ELSE "provision"
                /\ error' = error
    /\ UNCHANGED <<dry_run, started, data, idx, tidx, missing_rules, visited,
                   beneficiary, rule, last, hist, pages, yielded, seen, ledger>>

Next ==
    \/ GetUser
    \/ SearchTransactions
    \/ YieldEntry
    \/ ExamineTransaction
    \/ FetchNextPage
    \/ EndOfScan
    \/ CreateRule
    \/ TriggerRule

Spec == Init /\ [][Next]_vars

\* The same run, not recorded and with no bound on the number of pages; main
\* is a sequential program that takes its next step whenever it has one.
InitLive == Start(FALSE)
SpecLive == InitLive /\ [][Next]_vars /\ WF_vars(Next)

-----------------------------------------------------------------------------
(* Properties *)

IsRuleCreation(e) == e.method = "POST" /\ e.url = "/api/v1/rules"
IsTrigger(e) == e.method = "POST" /\ e.url # "/api/v1/rules"
Creations == {i \in 1..Len(log) : IsRuleCreation(log[i])}
Posts == {i \in 1..Len(log) : log[i].method = "POST"}

\* The beneficiary names that the notes examined so far give.
ExtractedNames ==
    {strip(re_search(seen[i]).group1) : i \in {j \in 1..Len(seen) : re_search(seen[j]).matched}}

\* The entries of a received page that decodes as a list of objects, in order.
Decodes(p) ==
    /\ p.arrived /\ p.json /\ p.obj /\ ~(p.message.t = "str" /\ p.exception.t = "str")
    /\ p.data.t = "list" /\ \A i \in 1..Len(p.data.items) : p.data.items[i].t = "dict"
ItemsOf(p) == IF Decodes(p) THEN p.data.items ELSE <<>>
ItemsUpTo(n) == Flatten([k \in 1..n |-> ItemsOf(pages[k])])

\* The notes of the transactions of a list of entries, in order.
NotesOf(entries) ==
    Flatten([k \in 1..Len(entries) |->
                [j \in 1..Len(entries[k].transactions) |-> entries[k].transactions[j].notes]])

\* part occurs in whole as a contiguous run.
IsSubstring(part, whole) ==
    \E i \in 1..(Len(whole) + 1) :
        /\ i + Len(part) - 1 <= Len(whole)
        /\ SubSeq(whole, i, i + Len(part) - 1) = part

IsPrefix(s, t) == Len(s) <= Len(t) /\ SubSeq(t, 1, Len(s)) = s

ScanCompleted ==
    /\ Len(pages) >= 1
    /\ \A k \in 1..Len(pages) : Decodes(pages[k])
    /\ \A k \in 1..Len(pages) : (pages[k].next.t = "str") <=> (k < Len(pages))
    /\ yielded = ItemsUpTo(Len(pages))
    /\ \A i \in 1..Len(yielded) : yielded[i].attrs
    /\ seen = NotesOf(yielded)

\* C1: with dry_run set, every request of the run is a GET: no rule is
\* created and none is triggered, whatever the server answers and however
\* many beneficiaries the scan finds.
DryRunIssuesNoPost ==
    dry_run => \A i \in 1..Len(log) : log[i].method = "GET"

DryRunWitness ==
    /\ dry_run
    /\ pc = "done"
    /\ Cardinality(missing_rules) = 2
    /\ Len(log) = 3

\* C2: no beneficiary name is ever the title of two rule-creation requests,
\* and a run without dry-run that ends without an exception has issued
\* exactly one rule-creation request for each distinct trimmed name that the
\* examined notes give, and no other.
SetDeduplication ==
    /\ \A i, j \in Creations : log[i].title = log[j].title => i = j
    /\ (pc = "done" /\ ~dry_run) =>
          /\ Cardinality(Creations) = Cardinality(ExtractedNames)
          /\ {log[i].title : i \in Creations} = ExtractedNames

SetDeduplicationWitness ==
    /\ pc = "done"
    /\ ~dry_run
    /\ Len(pages) = 2
    /\ \E i, j \in 1..Len(seen) : seen[i] = NoteA /\ seen[j] = NoteA2
    /\ \E i \in 1..Len(seen) : seen[i] = NoteB
    /\ Cardinality(Creations) = 2

\* C3: the entries yielded so far are, in order, the entries of the pages
\* received so far, all of them for every page but the latest: a page is
\* requested only once every entry of the page before it has been yielded,
\* and from the links.next of that page.
LazyOrderedPagination ==
    /\ IsPrefix(yielded, ItemsUpTo(Len(pages)))
    /\ pc \in {"provision", "trigger", "done"} => yielded = ItemsUpTo(Len(pages))
    /\ Len(pages) >= 1 => Len(yielded) >= Len(ItemsUpTo(Len(pages) - 1))
    /\ \A k \in 2..Len(pages) :
          /\ pages[k - 1].next.t = "str"
          /\ log[k + 1].method = "GET"
          /\ log[k + 1].url = pages[k - 1].next.v

LazyOrderedPaginationWitness ==
    /\ Len(pages) = 2
    /\ Len(pages[1].data.items) = 2
    /\ pages[1].data.items[1] # pages[1].data.items[2]
    /\ Len(yielded) = 3

\* C5: the latest decoding ended in exactly one of four ways, decided in this
\* order: ValueError for a body that does not parse; RuntimeError with the
\* text "<exception>: <message>" for an object with textual message and
\* exception, with or without data; for any other object with data, the data
\* itself when it has the expected shape and ValidationError when not;
\* ValueError for everything else. Any way but the return ends the run with
\* that exception.
DecoderDispatch ==
    last.called =>
        LET r == last.r
            out == last.out
            isError == r.obj /\ r.message.t = "str" /\ r.exception.t = "str"
            shaped == IF last.expected_type = "dict" THEN r.data.t = "dict"
                      ELSE r.data.t = "list" /\ \A i \in 1..Len(r.data.items) :
                                                  r.data.items[i].t = "dict"
        IN  /\ out.kind \in {"ok", "ValueError", "RuntimeError", "ValidationError"}
            /\ ~r.json => out.kind = "ValueError"
            /\ (r.json /\ isError) =>
                  /\ out.kind = "RuntimeError"
                  /\ out.text = r.exception.v \o ": " \o r.message.v
            /\ (r.json /\ r.obj /\ ~isError /\ r.data.t # "absent") =>
                  /\ out.kind = (IF shaped THEN "ok" ELSE "ValidationError")
                  /\ shaped => out.value = r.data
            /\ (r.json /\ (~r.obj \/ (~isError /\ r.data.t = "absent"))) =>
                  out.kind = "ValueError"
            /\ out.kind # "ok" => pc = "failed" /\ error = out.kind

DecoderDispatchWitness ==
    /\ last.called
    /\ last.r.message.t = "str"
    /\ last.r.exception.t = "str"
    /\ last.r.data.t = "dict"
    /\ last.out.text = "AuthenticationException: Unauthenticated"
    /\ error = "RuntimeError"

NonMatchingNotesAreSkipped ==
    /\ missing_rules = ExtractedNames
    /\ pc = "failed" => error # ""
    /\ pc \in {"provision", "trigger", "done"} => ScanCompleted

NonMatchingNotesWitness ==
    /\ pc = "done"
    /\ Len(pages) = 2
    /\ Len(seen) = 4
    /\ seen[1] = NoteNoMatch
    /\ seen[2] = NoteA2
    /\ seen[3] = NoteNoMatch
    /\ seen[4] = NoteA2
    /\ Len(pages[1].data.items) = 1
    /\ missing_rules = {<<"A">>}

NoRollback ==
    (error # "" /\ visited # {}) =>
        /\ pc = "failed"
        /\ \A i \in 1..Len(log) : log[i].method \in {"GET", "POST"}
        /\ {log[i].title : i \in Creations} = visited
        /\ Cardinality(Creations) = Cardinality(visited)
        /\ \A i \in Creations : i < Len(log) - 1 => log[i].title # beneficiary
        /\ visited \ {beneficiary} \subseteq {ledger[k].title : k \in 1..Len(ledger)}
        /\ IsTrigger(log[Len(log)]) =>
              beneficiary \in {ledger[k].title : k \in 1..Len(ledger)}
        /\ {ledger[k].title : k \in 1..Len(ledger)} = {log[i].title : i \in {j \in Creations : log[j].ok}}
        /\ Len(ledger) = Cardinality({i \in Creations : log[i].ok})

NoRollbackWitness ==
    /\ pc = "failed"
    /\ error = "HTTPError"
    /\ Cardinality(missing_rules) = 2
    /\ Cardinality(visited) = 1
    /\ Len(ledger) = 1
    /\ Len(log) = 5

\* C9: a POST is in the log only if the user was fetched and decoded and the
\* scan was completed; a failed user fetch is the only request of its run;
\* and a run in which a page failed to decode has failed without any POST.
ReadBeforeWrite ==
    /\ Posts # {} =>
          /\ log[1].method = "GET" /\ log[1].url = "/api/v1/about/user" /\ log[1].ok
          /\ ScanCompleted
          /\ \A i \in Posts : i > Len(pages) + 1
    /\ (Len(log) >= 1 /\ ~log[1].ok) => Len(log) = 1 /\ pc = "failed"
    /\ (\E k \in 1..Len(pages) : ~Decodes(pages[k])) => Posts = {} /\ pc = "failed"
    /\ (error # "" /\ visited = {}) => Posts = {} /\ pc = "failed"

ReadBeforeWriteWitness ==
    /\ pc = "failed"
    /\ ~dry_run
    /\ Len(pages) = 2
    /\ ~Decodes(pages[2])
    /\ error = "ValidationError"
    /\ Cardinality(missing_rules) = 2

\* C10: the notes_contains value of every rule-creation request occurs in
\* every examined note that gave the request's beneficiary.
RuleMatchesNotes ==
    \A i \in Creations : \A j \in 1..Len(seen) :
        (re_search(seen[j]).matched /\ strip(re_search(seen[j]).group1) = log[i].title)
            => IsSubstring(log[i].value, seen[j])

====
